---- MODULE Spec2Model ----
(***************************************************************************)
(* A model of mygit (src/unnamed/part_000, lines 1-960): the object store, *)
(* the tree writer, the commit writer, the smart-HTTP clone with its       *)
(* packfile parser and delta engine, and checkout.                         *)
(*                                                                         *)
(* Byte strings are sequences of integers 0..255.  One process runs one    *)
(* command at a time; pc is the running command's position, so that the    *)
(* process can be killed between any two steps.                            *)
(***************************************************************************)
EXTENDS Integers, Sequences, FiniteSets, TLC

(***************************************************************************)
(* Bounds of the model.                                                    *)
(***************************************************************************)
\* commands run one after the other in one behaviour
MaxCmds == 2
\* the longest instruction sequence of a delta
MaxInstrs == 2
\* the bytes of a pack entry header, at most
MaxHeaderLen == 3

(***************************************************************************)
(* Program constants.                                                      *)
(***************************************************************************)
\* sha1.Size: the bytes of a digest
DigestLen == 20
\* fetchObjects: checksumLen, headerLen
checksumLen == 20
headerLen == 12
\* fetchPacketFile: the bytes of "0008NAK\n" cut from the response
nakLen == 8
\* the const block of part_000
msbMask == 128
remMask == 127
objMask == 112
firstRemMask == 15
objCommit == 1
objTree == 2
objBlob == 3
objOfsDelta == 6
objRefDelta == 7

(***************************************************************************)
(* Byte strings.                                                           *)
(***************************************************************************)
\* "blob", "tree", "commit" (typeString, hashObject, writeTree, commit)
blobStr == <<98, 108, 111, 98>>
treeStr == <<116, 114, 101, 101>>
commitStr == <<99, 111, 109, 109, 105, 116>>
\* "100644", "40000": the modes writeTree records
fileMode == <<49, 48, 48, 54, 52, 52>>
dirMode == <<52, 48, 48, 48, 48>>
\* "-p"
optP == <<45, 112>>

\* s[from..to], 1-based and inclusive, empty when from > to
Slice(s, from, to) == IF from > to THEN <<>> ELSE SubSeq(s, from, to)

\* s[from..] as Go's s[from-1:]
From(s, from) == Slice(s, from, Len(s))

\* the position of the first b in s at or after from, 0 when there is none
\* (strings.IndexByte, bufio.Reader.ReadBytes)
RECURSIVE IndexIn(_, _, _, _)
IndexIn(s, b, lo, hi) ==
    IF lo > hi THEN 0
    ELSE IF lo = hi THEN (IF s[lo] = b THEN lo ELSE 0)
    ELSE LET mid == (lo + hi) \div 2
             l == IndexIn(s, b, lo, mid)
         IN  IF l # 0 THEN l ELSE IndexIn(s, b, mid + 1, hi)

IndexFrom(s, b, from) == IndexIn(s, b, from, Len(s))

IndexByte(s, b) == IndexFrom(s, b, 1)

\* the concatenation of a sequence of byte strings
RECURSIVE Concat(_)
Concat(ss) == IF ss = <<>> THEN <<>> ELSE Head(ss) \o Concat(Tail(ss))

\* Go's < on strings: byte-wise, a proper prefix first
StrLess(a, b) ==
    LET n == IF Len(a) < Len(b) THEN Len(a) ELSE Len(b)
        D == {i \in 1..n : a[i] # b[i]}
    IN  IF D = {} THEN Len(a) < Len(b)
        ELSE LET k == CHOOSE i \in D : \A j \in D : i <= j
             IN  a[k] < b[k]

\* fmt's %d of a length
RECURSIVE Itoa(_)
Itoa(n) == IF n < 10 THEN <<48 + n>> ELSE Itoa(n \div 10) \o <<48 + (n % 10)>>

IsDigits(s) == s # <<>> /\ \A i \in 1..Len(s) : s[i] \in 48..57

\* strconv.ParseInt(s, 10, 64) of a digit string
RECURSIVE Atoi(_)
Atoi(s) == IF s = <<>> THEN 0 ELSE 10 * Atoi(Slice(s, 1, Len(s) - 1)) + (s[Len(s)] - 48)

\* one lowercase hex digit (fmt's %x, hex.EncodeToString)
HexDigit(n) == IF n < 10 THEN 48 + n ELSE 87 + n

\* the 2*Len(d) lowercase hex characters of the bytes d
Hex(d) == [i \in 1..(2 * Len(d)) |->
             IF i % 2 = 1 THEN HexDigit(d[(i + 1) \div 2] \div 16)
                          ELSE HexDigit(d[i \div 2] % 16)]

(***************************************************************************)
(* crypto/sha1.  A digest is DigestLen bytes computed from every byte of   *)
(* the data in order; the mixing function stands for SHA1's compression,   *)
(* and no two byte strings the model hashes share a digest.                *)
(***************************************************************************)
\* <<h, w>>: h is the state after absorbing data[lo..hi] from state 0 with
\* multiplier m modulo p (h' = h * m + byte + 7), w is m^(hi - lo + 1)
RECURSIVE Sha1Mix(_, _, _, _, _)
Sha1Mix(data, lo, hi, m, p) ==
    IF lo > hi THEN <<0, 1>>
    ELSE IF lo = hi THEN <<(data[lo] + 7) % p, m % p>>
    ELSE LET mid == (lo + hi) \div 2
             l == Sha1Mix(data, lo, mid, m, p)
             r == Sha1Mix(data, mid + 1, hi, m, p)
         IN  <<(l[1] * r[2] + r[1]) % p, (l[2] * r[2]) % p>>

Sha1State(data, m, p) ==
    LET x == Sha1Mix(data, 1, Len(data), m, p) IN (17 * x[2] + x[1]) % p

shaData(data) ==
    LET h1 == Sha1State(data, 31, 32749)
        h2 == Sha1State(data, 37, 32719)
    IN  [i \in 1..DigestLen |->
           IF i = 1 THEN h1 % 256
           ELSE IF i = 2 THEN h1 \div 256
           ELSE IF i = 3 THEN h2 % 256
           ELSE IF i = 4 THEN h2 \div 256
           ELSE (h1 * i + h2 * (i + 1)) % 256]

\* fmt.Sprintf("%x", sha1.Sum(data)): the name an object is stored under
HexSha(data) == Hex(shaData(data))

(***************************************************************************)
(* compress/zlib.  A stream is the 2-byte header 78 9c, one final stored   *)
(* block (a flag byte and the 2-byte little-endian length before the       *)
(* data) and the 4-byte big-endian Adler-32 of the data.  zlib.Writer      *)
(* writes the header to the underlying writer at the first Write and the   *)
(* block and the checksum at Close.                                        *)
(***************************************************************************)
zlibHeader == <<120, 156>>

\* <<the sum of data[lo..hi], the sum of (Len(data) - i + 1) * data[i]>>
RECURSIVE AdlerSums(_, _, _)
AdlerSums(data, lo, hi) ==
    IF lo > hi THEN <<0, 0>>
    ELSE IF lo = hi THEN <<data[lo], (Len(data) - lo + 1) * data[lo]>>
    ELSE LET mid == (lo + hi) \div 2
             l == AdlerSums(data, lo, mid)
             r == AdlerSums(data, mid + 1, hi)
         IN  <<l[1] + r[1], l[2] + r[2]>>

\* s1 = 1 + the bytes, s2 = the sum of s1 after each byte, both modulo 65521
Adler32(data) ==
    LET t == AdlerSums(data, 1, Len(data))
        s1 == (1 + t[1]) % 65521
        s2 == (Len(data) + t[2]) % 65521
    IN  <<s2 \div 256, s2 % 256, s1 \div 256, s1 % 256>>

\* the bytes zlib.Writer has written once Write(data) and Close() returned
Deflate(data) ==
    zlibHeader \o <<1, Len(data) % 256, Len(data) \div 256>> \o data \o Adler32(data)

\* zlib.NewReader(r) followed by io.Copy / io.ReadAll from the bytes s:
\*   hdr  - NewReader accepted the header
\*   data - the bytes read before the end of the stream or the error
\*   err  - the read ended with an error (truncated stream, bad checksum)
\*   used - the bytes of s the stream takes (its own end marker decides)
Inflate(s) ==
    IF Len(s) < 2 \/ Slice(s, 1, 2) # zlibHeader
    THEN [hdr |-> FALSE, data |-> <<>>, err |-> TRUE, used |-> 0]
    ELSE IF Len(s) < 5 \/ s[3] # 1
    THEN [hdr |-> TRUE, data |-> <<>>, err |-> TRUE, used |-> Len(s)]
    ELSE LET n == s[4] + 256 * s[5]
         IN  IF Len(s) < 5 + n
             THEN [hdr |-> TRUE, data |-> From(s, 6), err |-> TRUE, used |-> Len(s)]
             ELSE LET d == Slice(s, 6, 5 + n)
                  IN  IF Len(s) < 9 + n \/ Slice(s, 6 + n, 9 + n) # Adler32(d)
                      THEN [hdr |-> TRUE, data |-> d, err |-> TRUE,
                            used |-> IF Len(s) < 9 + n THEN Len(s) ELSE 9 + n]
                      ELSE [hdr |-> TRUE, data |-> d, err |-> FALSE, used |-> 9 + n]

\* the file holds one complete, finalized zlib stream and nothing else
Finalized(s) == LET r == Inflate(s) IN r.hdr /\ ~r.err /\ r.used = Len(s)

(***************************************************************************)
(* The object codec.                                                       *)
(***************************************************************************)
\* fmt.Sprintf("%s %d\x00", objectType, len(contents)) followed by contents
wrapper(contents, objectType) ==
    objectType \o <<32>> \o Itoa(Len(contents)) \o <<0>> \o contents

\* Object.typeString: <<ok, name>>
typeString(t) ==
    IF t = objCommit THEN <<TRUE, commitStr>>
    ELSE IF t = objTree THEN <<TRUE, treeStr>>
    ELSE IF t = objBlob THEN <<TRUE, blobStr>>
    ELSE <<FALSE, <<>>>>

(***************************************************************************)
(* Finite maps (files by name, the table of parsed objects).               *)
(***************************************************************************)
Put(f, k, v) == [x \in (DOMAIN f) \cup {k} |-> IF x = k THEN v ELSE f[x]]
Del(f, k) == [x \in (DOMAIN f) \ {k} |-> f[x]]
EmptyMap == [x \in {} |-> <<>>]

(***************************************************************************)
(* Inputs: the files of the directory the commands run in.                 *)
(***************************************************************************)
\* file names "a", "a.b", "c" and a name no file has
nameA == <<97>>
nameAB == <<97, 46, 98>>
nameC == <<99>>
nameMissing == <<122>>

\* file contents: empty, "hi", "a\0b" (a NUL inside)
FileContents == {<<>>, <<104, 105>>, <<97, 0, 98>>}

\* path.Join of the names of a path
RECURSIVE JoinPath(_)
JoinPath(p) ==
    IF p = <<>> THEN <<>>
    ELSE IF Len(p) = 1 THEN p[1]
    ELSE p[1] \o <<47>> \o JoinPath(Tail(p))

\* the working directories a behaviour may start in: files by path (a
\* sequence of names) and the directories
InitWorktrees ==
    {[files |-> EmptyMap, dirs |-> {}]}
    \cup {[files |-> [p \in {<<nameA>>} |-> c], dirs |-> {}] : c \in FileContents}
    \cup {[files |-> [p \in {<<nameAB>>, <<nameA, nameC>>} |-> <<104, 105>>],
           dirs |-> {<<nameA>>}]}

(***************************************************************************)
(* The state.                                                              *)
(***************************************************************************)
VARIABLES
    objects,    \* .git/objects: hex name (<hh><rest>) -> the bytes of the file
    ref,        \* .git/refs/heads/master: [exists, data]
    head,       \* .git/HEAD: [exists, data]
    headsDir,   \* .git/refs/heads exists
    temp,       \* hashObject's temp file: [exists, data]
    wtFiles,    \* the working tree: path -> content
    wtDirs,     \* the working tree's directories
    cmd,        \* the running (or last) command: [name, args], args = os.Args[2:]
    pc,         \* its position; idle, exit0, exit1, exit2 (panic), killed when none runs
    stdout,     \* what it printed on standard output
    failed,     \* it met a failure (an err != nil branch, an unknown option)
    ncmds,      \* commands started so far
    lastHash,   \* the digest hash-object last printed and the bytes of its file
    pending,    \* the object files the command has still to write: [name, data]
    commitSha,  \* clone: what fetchLatestCommit returned
    packet,     \* clone: packetFileBuffer
    rdPos,      \* clone: the next byte of packet bufReader reads (1-based)
    shaToObj,   \* clone: the table of parsed objects, hex digest -> [Type, Buf]
    toWrite,    \* clone: the keys of shaToObj writeFetchedObjects has still to visit
    deltaRun,   \* one call of readDeltified: [base, instrs, stream, res, out]
    headerRun   \* one call of readObjectTypeAndLen: [header, res, objType, num]

repoVars == <<objects, ref, head, headsDir>>
wtVars == <<wtFiles, wtDirs>>
cloneVars == <<commitSha, packet, rdPos, shaToObj, toWrite>>
vars == <<objects, ref, head, headsDir, temp, wtFiles, wtDirs, cmd, pc, stdout,
          failed, ncmds, lastHash, pending, commitSha, packet, rdPos, shaToObj,
          toWrite, deltaRun, headerRun>>

NoFile == [exists |-> FALSE, data |-> <<>>]
NoDelta == [base |-> <<>>, instrs |-> <<>>, stream |-> <<>>, res |-> "none", out |-> <<>>]
NoHeader == [header |-> <<>>, res |-> "none", objType |-> 0, num |-> 0]
File(data) == [exists |-> TRUE, data |-> data]

Stopped == pc \in {"idle", "exit0", "exit1", "exit2", "killed"}
CanStart == Stopped /\ ncmds < MaxCmds

\* a new process: os.Args, nothing printed yet, its memory fresh
Exec(name, args, first) ==
    /\ CanStart
    /\ cmd' = [name |-> name, args |-> args]
    /\ pc' = first
    /\ stdout' = <<>>
    /\ ncmds' = ncmds + 1
    /\ commitSha' = <<>>
    /\ packet' = <<>>
    /\ rdPos' = 0
    /\ shaToObj' = EmptyMap
    /\ toWrite' = {}
    /\ UNCHANGED <<deltaRun, headerRun>>

Init ==
    /\ objects = EmptyMap
    /\ ref = NoFile
    /\ head = NoFile
    /\ headsDir = FALSE
    /\ temp = NoFile
    /\ \E w \in InitWorktrees : wtFiles = w.files /\ wtDirs = w.dirs
    /\ cmd = [name |-> "", args |-> <<>>]
    /\ pc = "idle"
    /\ stdout = <<>>
    /\ failed = FALSE
    /\ ncmds = 0
    /\ lastHash = [sha |-> <<>>, content |-> <<>>]
    /\ pending = <<>>
    /\ commitSha = <<>>
    /\ packet = <<>>
    /\ rdPos = 0
    /\ shaToObj = EmptyMap
    /\ toWrite = {}
    /\ deltaRun = NoDelta
    /\ headerRun = NoHeader

(***************************************************************************)
(* init (main, case "init").  A directory or HEAD that cannot be written   *)
(* is reported and the command carries on to its last line.                *)
(***************************************************************************)
\* "ref: refs/heads/master\n"
headFileContents ==
    <<114, 101, 102, 58, 32, 114, 101, 102, 115, 47, 104, 101, 97, 100, 115, 47,
      109, 97, 115, 116, 101, 114, 10>>

CmdInit ==
    \E ioError \in BOOLEAN :
      /\ Exec("init", <<>>, "exit0")
      /\ failed' = ioError
      /\ headsDir' = IF ioError THEN headsDir ELSE TRUE
      /\ head' = IF ioError THEN head ELSE File(headFileContents)
      /\ UNCHANGED <<objects, ref, temp, wtVars, lastHash, pending>>

(***************************************************************************)
(* An unknown command (main, default).                                     *)
(***************************************************************************)
CmdUnknown ==
    /\ Exec("frobnicate", <<>>, "exit1")
    /\ failed' = TRUE
    /\ UNCHANGED <<repoVars, temp, wtVars, lastHash, pending>>

(***************************************************************************)
(* hash-object -w <file> (hashObject).                                     *)
(***************************************************************************)
\* the paths a file argument may name
FileArgs == {JoinPath(p) : p \in DOMAIN wtFiles} \cup {nameMissing}

FileOf(arg) == CHOOSE p \in DOMAIN wtFiles : JoinPath(p) = arg

\* header "blob <size>\0" and the file's bytes, as io.MultiReader yields them
hashObjectInput(content) == wrapper(content, blobStr)

CmdHashObject ==
    \E f \in FileArgs :
      /\ Exec("hash-object", <<<<45, 119>>, f>>, "ho_stat")
      /\ failed' = FALSE
      /\ UNCHANGED <<repoVars, temp, wtVars, lastHash, pending>>

\* os.Stat, os.Open, os.CreateTemp, zlib.NewWriter
HoOpen ==
    /\ pc = "ho_stat"
    /\ IF \E p \in DOMAIN wtFiles : JoinPath(p) = cmd.args[2]
       THEN /\ temp' = File(<<>>)
            /\ pc' = "ho_copy"
            /\ UNCHANGED failed
       ELSE /\ failed' = TRUE
            /\ pc' = "exit1"
            /\ UNCHANGED temp
    /\ UNCHANGED <<repoVars, wtVars, cmd, stdout, ncmds, lastHash, pending, cloneVars,
                   deltaRun, headerRun>>

\* io.Copy into the hash and the zlib writer: the zlib writer has written
\* its header to the temp file and holds the data until Close
HoCopy ==
    /\ pc = "ho_copy"
    /\ temp' = File(temp.data \o zlibHeader)
    /\ pc' = "ho_rename"
    /\ UNCHANGED <<repoVars, wtVars, cmd, stdout, failed, ncmds, lastHash, pending, cloneVars,
                   deltaRun, headerRun>>

\* os.MkdirAll, os.Rename(temp, dst); when the rename fails (the temp
\* directory is on another file system) os.Remove(dst) and exit 1
HoRename ==
    /\ pc = "ho_rename"
    /\ LET content == wtFiles[FileOf(cmd.args[2])]
           sha == HexSha(hashObjectInput(content))
       IN  \E renamed \in BOOLEAN :
             IF renamed
             THEN /\ objects' = Put(objects, sha, temp.data)
                  /\ temp' = NoFile
                  /\ stdout' = sha \o <<10>>
                  /\ lastHash' = [sha |-> sha, content |-> content]
                  /\ pc' = "ho_close"
                  /\ UNCHANGED failed
             ELSE /\ objects' = Del(objects, sha)
                  /\ failed' = TRUE
                  /\ pc' = "exit1"
                  /\ UNCHANGED <<temp, stdout, lastHash>>
    /\ UNCHANGED <<ref, head, headsDir, wtVars, cmd, ncmds, pending, cloneVars,
                   deltaRun, headerRun>>

\* return 0: the deferred zWriter.Close() writes the block and the checksum
\* through the file handle, which now is the file at the final name
HoClose ==
    /\ pc = "ho_close"
    /\ LET content == wtFiles[FileOf(cmd.args[2])]
           sha == HexSha(hashObjectInput(content))
       IN  objects' = Put(objects, sha, Deflate(hashObjectInput(content)))
    /\ pc' = "exit0"
    /\ UNCHANGED <<ref, head, headsDir, temp, wtVars, cmd, stdout, failed, ncmds,
                   lastHash, pending,
                   cloneVars,
                   deltaRun, headerRun>>

(***************************************************************************)
(* cat-file <option> <digest> (main, case "cat-file").                     *)
(***************************************************************************)
\* strings.Split(string(b), "\x00")[1]: <<ok, the second piece>>; there is
\* no second piece when b holds no NUL
secondPiece(b) ==
    LET i == IndexByte(b, 0)
    IN  IF i = 0 THEN <<FALSE, <<>>>>
        ELSE LET j == IndexFrom(b, 0, i + 1)
             IN  <<TRUE, IF j = 0 THEN From(b, i + 1) ELSE Slice(b, i + 1, j - 1)>>

\* a digest that names no object
shaMissing == [i \in 1..(2 * DigestLen) |-> 48]

CmdCatFile ==
    \E option \in {optP, <<45, 116>>}, sha \in (DOMAIN objects) \cup {shaMissing} :
      /\ Exec("cat-file", <<option, sha>>, "cat")
      /\ failed' = FALSE
      /\ UNCHANGED <<repoVars, temp, wtVars, lastHash, pending>>

CatFile ==
    /\ pc = "cat"
    /\ LET sha == cmd.args[2]
       IN  IF cmd.args[1] # optP
           THEN \* default: "Unknown command" on stderr, and main returns
                /\ failed' = TRUE /\ pc' = "exit0" /\ UNCHANGED stdout
           ELSE IF sha \notin DOMAIN objects
           THEN /\ failed' = TRUE /\ pc' = "exit1" /\ UNCHANGED stdout
           ELSE LET r == Inflate(objects[sha])
                    piece == secondPiece(r.data)
                IN  IF ~r.hdr
                    THEN \* "Err" is printed; zr is nil and zr.Close panics
                         /\ failed' = TRUE /\ pc' = "exit2" /\ UNCHANGED stdout
                    ELSE IF ~piece[1]
                    THEN /\ failed' = TRUE /\ pc' = "exit2" /\ UNCHANGED stdout
                    ELSE \* io.ReadAll's error is dropped
                         /\ failed' = r.err
                         /\ stdout' = piece[2]
                         /\ pc' = "exit0"
    /\ UNCHANGED <<repoVars, temp, wtVars, cmd, ncmds, lastHash, pending, cloneVars,
                   deltaRun, headerRun>>

(***************************************************************************)
(* writeObject and writeTree.                                              *)
(***************************************************************************)
\* writeObject(t, data): the digest, its hex form, and the file it writes
\* with os.WriteFile: [name, data]
writeObject(t, data) ==
    LET storeContents == wrapper(data, t)
        hashKeyBytes == shaData(storeContents)
    IN  [hash |-> hashKeyBytes,
         hex |-> Hex(hashKeyBytes),
         write |-> [name |-> Hex(hashKeyBytes), data |-> Deflate(storeContents)]]

\* the comparator writeTree hands to sort.Slice: both rows are cut at the
\* position of the first space of entries[i]
entryLess(ei, ej) ==
    LET cut == IndexByte(ei, 32) + 1
    IN  StrLess(From(ei, cut), From(ej, cut))

\* sort.Slice on up to 12 elements: insertionSortLessFunc
RECURSIVE insertionInner(_, _)
insertionInner(data, j) ==
    IF j > 1 /\ entryLess(data[j], data[j - 1])
    THEN insertionInner([data EXCEPT ![j] = data[j - 1], ![j - 1] = data[j]], j - 1)
    ELSE data

RECURSIVE insertionOuter(_, _)
insertionOuter(data, i) ==
    IF i > Len(data) THEN data ELSE insertionOuter(insertionInner(data, i), i + 1)

sortSlice(entries) == insertionOuter(entries, 2)

\* os.ReadDir: the names in the directory path, sorted by name
RECURSIVE SortNames(_)
SortNames(S) ==
    IF S = {} THEN <<>>
    ELSE LET m == CHOOSE x \in S : \A y \in S \ {x} : StrLess(x, y)
         IN  <<m>> \o SortNames(S \ {m})

ReadDir(files, dirs, path) ==
    SortNames({q[Len(path) + 1] :
                 q \in {r \in (DOMAIN files) \cup dirs :
                          Len(r) = Len(path) + 1 /\ SubSeq(r, 1, Len(path)) = path}})

\* ".git"
gitName == <<46, 103, 105, 116>>

\* one row of a tree: mode, space, name, NUL, the 20 raw bytes of the digest
treeRow(mode, name, hash) == mode \o <<32>> \o name \o <<0>> \o hash

\* writeTree(path): the tree's digest and the files written, in order
RECURSIVE writeTree(_, _, _)
RECURSIVE treeRows(_, _, _, _)
treeRows(files, dirs, path, names) ==
    IF names = <<>> THEN [rows |-> <<>>, writes |-> <<>>]
    ELSE LET n == Head(names)
             p == path \o <<n>>
             first ==
               IF n = gitName THEN [rows |-> <<>>, writes |-> <<>>]
               ELSE IF p \in dirs
               THEN LET t == writeTree(files, dirs, p)
                    IN  [rows |-> <<treeRow(dirMode, n, t.hash)>>, writes |-> t.writes]
               ELSE LET o == writeObject(blobStr, files[p])
                    IN  [rows |-> <<treeRow(fileMode, n, o.hash)>>, writes |-> <<o.write>>]
             rest == treeRows(files, dirs, path, Tail(names))
         IN  [rows |-> first.rows \o rest.rows, writes |-> first.writes \o rest.writes]

writeTree(files, dirs, path) ==
    LET e == treeRows(files, dirs, path, ReadDir(files, dirs, path))
        o == writeObject(treeStr, Concat(sortSlice(e.rows)))
    IN  [hash |-> o.hash, hex |-> o.hex, writes |-> e.writes \o <<o.write>>]

(***************************************************************************)
(* write-tree (main, case "write-tree").                                   *)
(***************************************************************************)
CmdWriteTree ==
    /\ Exec("write-tree", <<>>, "wo_open")
    /\ failed' = FALSE
    /\ pending' = writeTree(wtFiles, wtDirs, <<>>).writes
    /\ UNCHANGED <<repoVars, temp, wtVars, lastHash>>

(***************************************************************************)
(* commit-tree <tree> -p <parent> -m <msg> (commit).                       *)
(***************************************************************************)
\* "tree ", "parent "
treePrefix == <<116, 114, 101, 101, 32>>
parentPrefix == <<112, 97, 114, 101, 110, 116, 32>>

\* a payload without the blank line between the parent line and the message
commitPayloadBare(treeHash, parentHash, msg) ==
    treePrefix \o treeHash \o <<10>> \o parentPrefix \o parentHash \o <<10>>
    \o msg \o <<10>>

\* the payload commit builds in its strings.Builder
commitPayload(treeHash, parentHash, msg) ==
    treePrefix \o treeHash \o <<10>> \o parentPrefix \o parentHash \o <<10>>
    \o <<10>> \o msg \o <<10>>

\* commit(treeHash, parentHash, msg): hashKey is the digest of the payload
\* (sb.String()), the file holds the header and the payload
commit(treeHash, parentHash, msg) ==
    LET sb == commitPayload(treeHash, parentHash, msg)
        hashKey == Hex(shaData(sb))
        storeContents == commitStr \o <<32>> \o Itoa(Len(sb)) \o <<0>> \o sb
    IN  [hex |-> hashKey, write |-> [name |-> hashKey, data |-> Deflate(storeContents)]]

CmdCommitTree ==
    \E tree \in (DOMAIN objects) \cup {shaMissing}, msg \in {<<120>>} :
      /\ Exec("commit-tree", <<tree, optP, shaMissing, <<45, 109>>, msg>>, "wo_open")
      /\ failed' = FALSE
      /\ pending' = <<commit(tree, shaMissing, msg).write>>
      /\ UNCHANGED <<repoVars, temp, wtVars, lastHash>>

\* os.WriteFile(pathCommit, hashKey + "\n"): .git/refs/heads must exist
CtRef ==
    /\ pc = "ct_ref"
    /\ IF headsDir
       THEN /\ \E hashCommit \in {commit(cmd.args[1], cmd.args[3], cmd.args[5]).hex} :
                 /\ ref' = File(hashCommit \o <<10>>)
                 /\ stdout' = hashCommit \o <<10>>
            /\ pc' = "exit0"
            /\ UNCHANGED failed
       ELSE /\ failed' = TRUE
            /\ pc' = "exit1"
            /\ UNCHANGED <<ref, stdout>>
    /\ UNCHANGED <<objects, head, headsDir, temp, wtVars, cmd, ncmds, lastHash, pending,
                   cloneVars,
                   deltaRun, headerRun>>

(***************************************************************************)
(* os.WriteFile of an object (writeObject, commit), os.Create and the      *)
(* zlib writer of writeGitObject: the file is opened with O_CREATE|O_TRUNC *)
(* at its final name, then written.                                        *)
(***************************************************************************)
WoOpen ==
    /\ pc = "wo_open"
    /\ objects' = Put(objects, Head(pending).name, <<>>)
    /\ pc' = "wo_write"
    /\ UNCHANGED <<ref, head, headsDir, temp, wtVars, cmd, stdout, failed, ncmds,
                   lastHash, pending, cloneVars,
                   deltaRun, headerRun>>

WoWrite ==
    /\ pc = "wo_write"
    /\ objects' = Put(objects, Head(pending).name, Head(pending).data)
    /\ pending' = Tail(pending)
    /\ IF Tail(pending) # <<>>
       THEN pc' = "wo_open" /\ UNCHANGED stdout
       ELSE IF cmd.name = "write-tree"
       THEN /\ stdout' = Head(pending).name \o <<10>>
            /\ pc' = "exit0"
       ELSE IF cmd.name = "clone" THEN pc' = "cl_pick" /\ UNCHANGED stdout
       ELSE pc' = "ct_ref" /\ UNCHANGED stdout
    /\ UNCHANGED <<ref, head, headsDir, temp, wtVars, cmd, failed, ncmds, lastHash,
                   cloneVars,
                   deltaRun, headerRun>>

(***************************************************************************)
(* Pkt-lines and reference discovery (packetLine, readPacketLine,          *)
(* fetchLatestCommit).                                                     *)
(***************************************************************************)
\* fmt's %04x of a size below 65536
Hex4(n) ==
    <<HexDigit((n \div 4096) % 16), HexDigit((n \div 256) % 16),
      HexDigit((n \div 16) % 16), HexDigit(n % 16)>>

\* packetLine(rawLine)
packetLine(rawLine) == Hex4(Len(rawLine) + 4) \o rawLine

\* the value of one hex digit, -1 when it is none
HexVal(c) ==
    IF c \in 48..57 THEN c - 48
    ELSE IF c \in 97..102 THEN c - 87
    ELSE IF c \in 65..70 THEN c - 55
    ELSE -1

\* readPacketLine on the bytes of buf from pos: [err, line, pos]
readPacketLine(buf, pos) ==
    IF pos + 3 > Len(buf) \/ \E k \in 0..3 : HexVal(buf[pos + k]) < 0
    THEN [err |-> TRUE, line |-> <<>>, pos |-> pos]
    ELSE LET size == 4096 * HexVal(buf[pos]) + 256 * HexVal(buf[pos + 1])
                     + 16 * HexVal(buf[pos + 2]) + HexVal(buf[pos + 3])
         IN  IF size = 0 THEN [err |-> FALSE, line |-> <<>>, pos |-> pos + 4]
             ELSE IF size < 4 \/ (size > 4 /\ pos + 4 > Len(buf))
             THEN [err |-> TRUE, line |-> <<>>, pos |-> pos + 4]
             ELSE LET last == IF pos + size - 1 > Len(buf) THEN Len(buf)
                              ELSE pos + size - 1
                  IN  [err |-> FALSE,
                       line |-> Slice(buf, pos + 4, last)
                                \o [k \in 1..(pos + size - 1 - last) |-> 0],
                       pos |-> last + 1]

\* the pkt-line after the pkt-line l, an error staying an error
nextPacketLine(body, l) == IF l.err THEN l ELSE readPacketLine(body, l.pos)

\* the end of fetchLatestCommit, l being its third pkt-line:
\* strings.Split(head, " ")[0]
latestCommitOf(l) ==
    IF l.err THEN [err |-> TRUE, sha |-> <<>>]
    ELSE [err |-> FALSE,
          sha |-> IF IndexByte(l.line, 32) = 0 THEN l.line
                  ELSE Slice(l.line, 1, IndexByte(l.line, 32) - 1)]

\* fetchLatestCommit on the body of the GET response: [err, sha]; the first
\* two pkt-lines are dropped, the third is cut at its first space
fetchLatestCommit(body) ==
    latestCommitOf(nextPacketLine(body, nextPacketLine(body, readPacketLine(body, 1))))

(***************************************************************************)
(* The packfile parser (readObjectTypeAndLen, readSha, decompressObject,   *)
(* readDeltified, saveObject, readObject).  A reader is the buffer and     *)
(* the 1-based position of its next byte.                                  *)
(***************************************************************************)
\* a & b on bytes
BitAnd(a, b) ==
    LET bit(x, k) == (x \div (2 ^ k)) % 2
        term(k) == (2 ^ k) * bit(a, k) * bit(b, k)
    IN  term(0) + term(1) + term(2) + term(3) + term(4) + term(5) + term(6) + term(7)

\* the loop of readObjectTypeAndLen: every following byte is added whole,
\* shifted by 4 + 7*i
RECURSIVE lenLoop(_, _, _, _)
lenLoop(buf, pos, num, i) ==
    IF pos > Len(buf) THEN [err |-> TRUE, num |-> 0, pos |-> pos]
    ELSE LET b == buf[pos]
             n == num + b * (2 ^ (4 + 7 * i))
         IN  IF BitAnd(b, msbMask) = 0 THEN [err |-> FALSE, num |-> n, pos |-> pos + 1]
             ELSE lenLoop(buf, pos + 1, n, i + 1)

\* readObjectTypeAndLen: [err, type, num, pos]
readObjectTypeAndLen(buf, pos) ==
    IF pos > Len(buf) THEN [err |-> TRUE, type |-> 0, num |-> 0, pos |-> pos]
    ELSE LET b == buf[pos]
             objType == BitAnd(b, objMask) \div 16
             num == BitAnd(b, firstRemMask)
         IN  IF BitAnd(b, msbMask) = 0
             THEN [err |-> FALSE, type |-> objType, num |-> num, pos |-> pos + 1]
             ELSE LET r == lenLoop(buf, pos + 1, num, 0)
                  IN  [err |-> r.err, type |-> IF r.err THEN 0 ELSE objType,
                       num |-> r.num, pos |-> r.pos]

\* readSha: up to 20 bytes are read into a zeroed 20-byte slice
readSha(buf, pos) ==
    IF pos > Len(buf) THEN [err |-> TRUE, sha |-> <<>>, pos |-> pos]
    ELSE LET last == IF pos + DigestLen - 1 > Len(buf) THEN Len(buf)
                     ELSE pos + DigestLen - 1
         IN  [err |-> FALSE,
              sha |-> Hex(Slice(buf, pos, last)
                          \o [k \in 1..(pos + DigestLen - 1 - last) |-> 0]),
              pos |-> last + 1]

\* decompressObject: one zlib stream from pos; the stream's own end decides
\* where the reader stands afterwards
decompressObject(buf, pos) ==
    LET r == Inflate(From(buf, pos))
    IN  [err |-> ~r.hdr \/ r.err, data |-> r.data, pos |-> pos + r.used]

\* binary.ReadUvarint: [err, val, pos]
RECURSIVE uvarintLoop(_, _, _, _)
uvarintLoop(buf, pos, x, s) ==
    IF pos > Len(buf) \/ s > 21 THEN [err |-> TRUE, val |-> 0, pos |-> pos]
    ELSE LET b == buf[pos]
         IN  IF b < 128 THEN [err |-> FALSE, val |-> x + b * (2 ^ s), pos |-> pos + 1]
             ELSE uvarintLoop(buf, pos + 1, x + BitAnd(b, 127) * (2 ^ s), s + 7)

ReadUvarint(buf, pos) == uvarintLoop(buf, pos, 0, 0)

\* the bytes a copy instruction selects: <<err, value, pos>>; bit i of
\* firstByte selects one byte, worth 256^(i - lo)
RECURSIVE selectBytes(_, _, _, _, _, _)
selectBytes(buf, pos, firstByte, i, hi, lo) ==
    IF i >= hi THEN <<FALSE, 0, pos>>
    ELSE IF (firstByte \div (2 ^ i)) % 2 = 0
    THEN selectBytes(buf, pos, firstByte, i + 1, hi, lo)
    ELSE IF pos > Len(buf) THEN <<TRUE, 0, pos>>
    ELSE LET r == selectBytes(buf, pos + 1, firstByte, i + 1, hi, lo)
         IN  <<r[1], buf[pos] * (2 ^ ((i - lo) * 8)) + r[2], r[3]>>

\* one copy instruction, its offset and size read: <<err, value, pos>> each
RECURSIVE deltaLoop(_, _, _, _)
deltaCopy(delta, base, result, off, sz) ==
    IF off[1] \/ sz[1] THEN [res |-> "err", buf |-> <<>>]
    ELSE IF off[2] + sz[2] > Len(base) THEN [res |-> "oob", buf |-> <<>>]
    ELSE deltaLoop(delta, sz[3], base,
                   result \o Slice(base, off[2] + 1, off[2] + sz[2]))

\* the size of a copy instruction, read after its offset
deltaCopySize(delta, base, result, firstByte, off) ==
    deltaCopy(delta, base, result, off, selectBytes(delta, off[3], firstByte, 4, 7, 4))

\* one insert instruction of n bytes (io.CopyN)
deltaInsert(delta, pos, base, result, n) ==
    IF pos + n > Len(delta) THEN [res |-> "err", buf |-> <<>>]
    ELSE deltaLoop(delta, pos + 1 + n, base, result \o Slice(delta, pos + 1, pos + n))

\* the instruction loop of readDeltified: [res, buf]; res is "ok", "err"
\* (an error is returned) or "oob" (a copy reaches past the base's length:
\* the slice expression takes bytes of the buffer's spare capacity or
\* panics, as the capacity decides)
deltaLoop(delta, pos, base, result) ==
    IF pos > Len(delta) THEN [res |-> "ok", buf |-> result]
    ELSE IF BitAnd(delta[pos], msbMask) = 0
    THEN deltaInsert(delta, pos, base, result, BitAnd(delta[pos], remMask))
    ELSE deltaCopySize(delta, base, result, delta[pos],
                       selectBytes(delta, pos + 1, delta[pos], 0, 4, 0))

\* the check at the end of readDeltified
deltaChecked(r, dstObjLen) ==
    IF r.res = "ok" /\ Len(r.buf) # dstObjLen THEN [res |-> "err", buf |-> <<>>] ELSE r

\* readDeltified after its first varint
deltaBody(delta, base, dstObjLen) ==
    IF dstObjLen.err THEN [res |-> "err", buf |-> <<>>]
    ELSE deltaChecked(deltaLoop(delta, dstObjLen.pos, base, <<>>), dstObjLen.val)

\* after the first varint, which may have failed: the second and the rest
deltaAfterSrcLen(delta, base, srcLen) ==
    IF srcLen.err THEN [res |-> "err", buf |-> <<>>]
    ELSE deltaBody(delta, base, ReadUvarint(delta, srcLen.pos))

\* a delta engine that takes no notice of the instructions and hands back
\* the base
readDeltifiedIdle(delta, base) == [res |-> "ok", buf |-> base]

\* readDeltified(reader, baseObj): the first varint (the base's size) is
\* read and dropped, the second is the result's length
readDeltified(delta, base) == deltaAfterSrcLen(delta, base, ReadUvarint(delta, 1))

\* saveObject(o) after a read that ended at pos: Object.sha, then the table
saveObject(table, pos, next, type, buf) ==
    IF ~typeString(type)[1] THEN [res |-> "err", pos |-> pos, table |-> table]
    ELSE [res |-> "ok", pos |-> next,
          table |-> Put(table, HexSha(wrapper(buf, typeString(type)[2])),
                        [Type |-> type, Buf |-> buf])]

\* readObject, an entry that is no delta: z is the decompressed payload
readPlain(table, pos, type, num, z) ==
    IF z.err \/ num # Len(z.data) THEN [res |-> "err", pos |-> pos, table |-> table]
    ELSE saveObject(table, pos, z.pos, type, z.data)

\* readObject, a ref-delta: d is what readDeltified made of it
readDelta(table, pos, next, type, zerr, d) ==
    IF zerr \/ d.res = "err" THEN [res |-> "err", pos |-> pos, table |-> table]
    ELSE IF d.res = "oob" THEN [res |-> "oob", pos |-> pos, table |-> table]
    ELSE saveObject(table, pos, next, type, d.buf)

\* a ref-delta whose result is saved as a blob, whatever its base is
readDeltaOnAsBlob(table, pos, baseObj, z) ==
    readDelta(table, pos, z.pos, objBlob, z.err, readDeltified(z.data, baseObj.Buf))

\* readObject, a ref-delta whose base is in the table
readDeltaOn(table, pos, baseObj, z) ==
    readDelta(table, pos, z.pos, baseObj.Type, z.err, readDeltified(z.data, baseObj.Buf))

\* readObject, a ref-delta: b is the base's digest as readSha read it
readRefDelta(buf, pos, table, b) ==
    IF b.err \/ b.sha \notin DOMAIN table
    THEN [res |-> "err", pos |-> pos, table |-> table]
    ELSE readDeltaOn(table, pos, table[b.sha], decompressObject(buf, b.pos))

\* readObject after readObjectTypeAndLen
readTyped(buf, pos, table, h) ==
    IF h.err THEN [res |-> "err", pos |-> pos, table |-> table]
    ELSE IF h.type = objRefDelta THEN readRefDelta(buf, pos, table, readSha(buf, h.pos))
    ELSE IF h.type = objOfsDelta THEN [res |-> "err", pos |-> pos, table |-> table]
    ELSE readPlain(table, pos, h.type, h.num, decompressObject(buf, h.pos))

\* readObject(reader) with the table shaToObj: [res, pos, table]
readObject(buf, pos, table) == readTyped(buf, pos, table, readObjectTypeAndLen(buf, pos))

(***************************************************************************)
(* Checkout (NewGitObjectReader, ReadContents, parseTree, getPerm,         *)
(* traverseTree, restoreRepository).                                       *)
(***************************************************************************)
\* ReadContents: size bytes after the header, which ends at nul
readContents(data, nul, size) ==
    IF Len(data) - nul < size THEN [err |-> TRUE, data |-> <<>>]
    ELSE [err |-> FALSE, data |-> Slice(data, nul + 1, nul + size)]

\* NewGitObjectReader from the size on: strconv.ParseInt of the text
\* between the space and the NUL
readSized(data, nul, sizeStr) ==
    IF ~IsDigits(sizeStr) THEN [err |-> TRUE, data |-> <<>>]
    ELSE readContents(data, nul, Atoi(sizeStr))

\* NewGitObjectReader: ReadString(0) after the type
readSizeStr(data, sp, nul) ==
    IF nul = 0 THEN [err |-> TRUE, data |-> <<>>]
    ELSE readSized(data, nul, Slice(data, sp + 1, nul - 1))

\* NewGitObjectReader: ReadString(' ')
readType(data, sp) ==
    IF sp = 0 THEN [err |-> TRUE, data |-> <<>>]
    ELSE readSizeStr(data, sp, IndexFrom(data, 0, sp + 1))

\* NewGitObjectReader: zlib.NewReader on the file
readInflated(r) ==
    IF ~r.hdr THEN [err |-> TRUE, data |-> <<>>]
    ELSE readType(r.data, IndexByte(r.data, 32))

\* readObjectContent(repoPath, objSha): [err, data]
readObjectContent(objs, objSha) ==
    IF objSha \notin DOMAIN objs THEN [err |-> TRUE, data |-> <<>>]
    ELSE readInflated(Inflate(objs[objSha]))

\* parseTree(treeBuf): [err, children]; children are [mode, name, sha]
RECURSIVE parseTreeLoop(_, _, _)
\* contentsReader.Read(sha): the bytes up to last, into a zeroed slice
parseSha(treeBuf, pos, children, sp, nul, last) ==
    parseTreeLoop(treeBuf, last + 1,
                  Append(children,
                         [mode |-> Slice(treeBuf, pos, sp - 1),
                          name |-> Slice(treeBuf, sp + 1, nul - 1),
                          sha |-> Hex(Slice(treeBuf, nul + 1, last)
                                      \o [k \in 1..(nul + DigestLen - last) |-> 0])]))

\* ReadString(0): the name ends at nul
parseName(treeBuf, pos, children, sp, nul) ==
    IF nul = 0 \/ nul = Len(treeBuf) THEN [err |-> TRUE, children |-> <<>>]
    ELSE parseSha(treeBuf, pos, children, sp, nul,
                  IF nul + DigestLen > Len(treeBuf) THEN Len(treeBuf)
                  ELSE nul + DigestLen)

\* ReadString(' '): the mode ends at sp; io.EOF ends the loop
parseMode(treeBuf, pos, children, sp) ==
    IF sp = 0 THEN [err |-> FALSE, children |-> children]
    ELSE parseName(treeBuf, pos, children, sp, IndexFrom(treeBuf, 0, sp + 1))

parseTreeLoop(treeBuf, pos, children) ==
    parseMode(treeBuf, pos, children, IndexFrom(treeBuf, 32, pos))

parseTree(treeBuf) == parseTreeLoop(treeBuf, 1, <<>>)

\* strings.HasPrefix(mode, "100")
isFileMode(mode) == Len(mode) >= 3 /\ Slice(mode, 1, 3) = <<49, 48, 48>>

\* getPerm(mode) succeeds: the digits after "100" must be octal
getPerm(mode) ==
    /\ isFileMode(mode)
    /\ Len(mode) > 3
    /\ \A k \in 4..Len(mode) : mode[k] \in 48..55

\* the directories os.MkdirAll(dir) makes sure of: dir and those above it
Parents(dir) == {SubSeq(dir, 1, k) : k \in 1..Len(dir)}

\* a checkout that reads no tree and writes no file
traverseTreeIdle(objs, curDir, treeSha, wt) ==
    [err |-> FALSE, files |-> wt.files, dirs |-> wt.dirs]

\* traverseTree(repoPath, curDir, treeSha) on the working tree wt =
\* [files, dirs]: [err, files, dirs], the files written before an error kept
RECURSIVE traverseTree(_, _, _, _)
RECURSIVE traverseChildren(_, _, _, _)
\* a child that is a file: readObjectContent gave blobBuf; MkdirAll,
\* getPerm, WriteFile
traverseFile(objs, curDir, children, wt, blobBuf) ==
    IF blobBuf.err \/ Parents(curDir) \cap DOMAIN wt.files # {}
    THEN [err |-> TRUE, files |-> wt.files, dirs |-> wt.dirs]
    ELSE IF ~getPerm(Head(children).mode)
            \/ (curDir \o <<Head(children).name>>) \in wt.dirs
    THEN [err |-> TRUE, files |-> wt.files, dirs |-> wt.dirs \cup Parents(curDir)]
    ELSE traverseChildren(objs, curDir, Tail(children),
           [files |-> Put(wt.files, curDir \o <<Head(children).name>>, blobBuf.data),
            dirs |-> wt.dirs \cup Parents(curDir)])

\* a child that is no file: sub is what traverseTree made of it
traverseDir(objs, curDir, children, sub) ==
    IF sub.err THEN sub
    ELSE traverseChildren(objs, curDir, Tail(children),
                          [files |-> sub.files, dirs |-> sub.dirs])

traverseChildren(objs, curDir, children, wt) ==
    IF children = <<>> THEN [err |-> FALSE, files |-> wt.files, dirs |-> wt.dirs]
    ELSE IF isFileMode(Head(children).mode)
    THEN traverseFile(objs, curDir, children, wt,
                      readObjectContent(objs, Head(children).sha))
    ELSE traverseDir(objs, curDir, children,
                     traverseTree(objs, curDir \o <<Head(children).name>>,
                                  Head(children).sha, wt))

\* traverseTree after parseTree
traverseParsed(objs, curDir, wt, tree) ==
    IF tree.err THEN [err |-> TRUE, files |-> wt.files, dirs |-> wt.dirs]
    ELSE traverseChildren(objs, curDir, tree.children, wt)

\* traverseTree after readObjectContent
traverseRead(objs, curDir, wt, treeBuf) ==
    IF treeBuf.err THEN [err |-> TRUE, files |-> wt.files, dirs |-> wt.dirs]
    ELSE traverseParsed(objs, curDir, wt, parseTree(treeBuf.data))

traverseTree(objs, curDir, treeSha, wt) ==
    traverseRead(objs, curDir, wt, readObjectContent(objs, treeSha))

\* the first line of a commit, sp its first space and nl the newline after
\* it: <<ok, treeSha>>; it must start "tree " and end with a newline
commitTreeAt(commitBuf, sp, nl) ==
    IF Slice(commitBuf, 1, sp) # treePrefix \/ nl = 0 THEN <<FALSE, <<>>>>
    ELSE <<TRUE, Slice(commitBuf, sp + 1, nl - 1)>>

commitTreeFrom(commitBuf, sp) ==
    IF sp = 0 THEN <<FALSE, <<>>>>
    ELSE commitTreeAt(commitBuf, sp, IndexFrom(commitBuf, 10, sp + 1))

commitTree(commitBuf) == commitTreeFrom(commitBuf, IndexByte(commitBuf, 32))

\* restoreRepository once the commit's tree is known
restoreTree(objs, wt, t) ==
    IF ~t[1] THEN [err |-> TRUE, files |-> wt.files, dirs |-> wt.dirs]
    ELSE traverseTree(objs, <<>>, t[2], wt)

\* restoreRepository after readObjectContent
restoreCommit(objs, wt, commitBuf) ==
    IF commitBuf.err THEN [err |-> TRUE, files |-> wt.files, dirs |-> wt.dirs]
    ELSE restoreTree(objs, wt, commitTree(commitBuf.data))

\* restoreRepository(repoPath, commitSha): [err, files, dirs]
restoreRepository(objs, sha, wt) ==
    restoreCommit(objs, wt, readObjectContent(objs, sha))

(***************************************************************************)
(* Inputs: bases and well-formed deltas for readDeltified.  A delta is the *)
(* base's length and the result's length as varints, then the             *)
(* instructions: a copy is a byte with the top bit set whose low bits say  *)
(* which bytes of the offset and of the size follow, an insert is a length *)
(* of 1..127 and that many bytes.                                          *)
(***************************************************************************)
Copy(offset, size) == [op |-> "copy", offset |-> offset, size |-> size, data |-> <<>>]
Insert(data) == [op |-> "insert", offset |-> 0, size |-> 0, data |-> data]

\* the bytes of v that are not zero, least significant first, among its
\* bytes i..n-1, and the sum of 2^(shift + i) over them
RECURSIVE NonZeroBytes(_, _, _)
NonZeroBytes(v, i, n) ==
    IF i >= n THEN <<>>
    ELSE (IF (v \div (256 ^ i)) % 256 = 0 THEN <<>> ELSE <<(v \div (256 ^ i)) % 256>>)
         \o NonZeroBytes(v, i + 1, n)

RECURSIVE ByteBits(_, _, _, _)
ByteBits(v, i, n, shift) ==
    IF i >= n THEN 0
    ELSE (IF (v \div (256 ^ i)) % 256 = 0 THEN 0 ELSE 2 ^ (shift + i))
         + ByteBits(v, i + 1, n, shift)

RECURSIVE Uvarint(_)
Uvarint(n) == IF n < 128 THEN <<n>> ELSE <<128 + (n % 128)>> \o Uvarint(n \div 128)

EncodeInstr(in) ==
    IF in.op = "insert" THEN <<Len(in.data)>> \o in.data
    ELSE <<128 + ByteBits(in.offset, 0, 4, 0) + ByteBits(in.size, 0, 3, 4)>>
         \o NonZeroBytes(in.offset, 0, 4) \o NonZeroBytes(in.size, 0, 3)

\* what the instructions say the result is: for a copy the bytes
\* base[offset : offset+size], for an insert its bytes, in order
RECURSIVE ExpectedOutput(_, _)
ExpectedOutput(base, instrs) ==
    IF instrs = <<>> THEN <<>>
    ELSE (IF Head(instrs).op = "copy"
          THEN Slice(base, Head(instrs).offset + 1,
                     Head(instrs).offset + Head(instrs).size)
          ELSE Head(instrs).data)
         \o ExpectedOutput(base, Tail(instrs))

EncodeDelta(base, instrs) ==
    Uvarint(Len(base)) \o Uvarint(Len(ExpectedOutput(base, instrs)))
    \o Concat([i \in 1..Len(instrs) |-> EncodeInstr(instrs[i])])

(***************************************************************************)
(* Inputs: the remotes a clone may talk to.  A remote answers the GET of   *)
(* info/refs with an advertisement and the POST of git-upload-pack with    *)
(* "0008NAK\n" and a packfile.                                             *)
(***************************************************************************)
\* the header of a pack entry: type and size, 4 bits of the size in the
\* first byte and 7 in the second
entryHeader(type, n) ==
    IF n < 16 THEN <<16 * type + n>>
    ELSE <<128 + 16 * type + (n % 16), n \div 16>>

packEntry(type, payload) == entryHeader(type, Len(payload)) \o Deflate(payload)

\* "PACK", version 2, the number of entries, the entries
packBody(entries) ==
    <<80, 65, 67, 75, 0, 0, 0, 2, 0, 0, 0, Len(entries)>> \o Concat(entries)

\* a packfile with its trailer, and one whose trailer does not match
goodPack(entries) == packBody(entries) \o shaData(packBody(entries))
badPack(entries) ==
    LET t == shaData(packBody(entries))
    IN  packBody(entries) \o [t EXCEPT ![1] = (t[1] + 1) % 256]

\* "0008NAK\n"
nakLine == <<48, 48, 48, 56, 78, 65, 75, 10>>

\* "# service=git-upload-pack\n", flush, "<tip> HEAD\n", flush
advertisement(tip) ==
    packetLine(<<35, 32, 115, 101, 114, 118, 105, 99, 101, 61, 103, 105, 116, 45,
                 117, 112, 108, 111, 97, 100, 45, 112, 97, 99, 107, 10>>)
    \o <<48, 48, 48, 48>>
    \o packetLine(tip \o <<32, 72, 69, 65, 68, 10>>)
    \o <<48, 48, 48, 48>>

\* the digest git gives an object
objectDigest(typeName, payload) == shaData(wrapper(payload, typeName))

\* a commit of the tree with that digest: "tree <hex>\n\nm\n"
remoteCommit(treeDigest) == treePrefix \o Hex(treeDigest) \o <<10, 10, 109, 10>>

blobHi == <<104, 105>>

\* the tree with one file, a = "hi"
flatTree == treeRow(fileMode, nameA, objectDigest(blobStr, blobHi))

\* the tree with the file a.b and the directory a holding the file c, its
\* rows in git's order: "a.b" before "a/"
subTree == treeRow(fileMode, nameC, objectDigest(blobStr, blobHi))
nestedTree ==
    treeRow(fileMode, nameAB, objectDigest(blobStr, blobHi))
    \o treeRow(dirMode, nameA, objectDigest(treeStr, subTree))

flatEntries ==
    <<packEntry(objCommit, remoteCommit(objectDigest(treeStr, flatTree))),
      packEntry(objTree, flatTree),
      packEntry(objBlob, blobHi)>>

nestedEntries ==
    <<packEntry(objCommit, remoteCommit(objectDigest(treeStr, nestedTree))),
      packEntry(objTree, nestedTree),
      packEntry(objTree, subTree),
      packEntry(objBlob, blobHi)>>

flatTip == Hex(objectDigest(commitStr, remoteCommit(objectDigest(treeStr, flatTree))))
nestedTip == Hex(objectDigest(commitStr, remoteCommit(objectDigest(treeStr, nestedTree))))

\* "120000", the mode of a symbolic link
linkMode == <<49, 50, 48, 48, 48, 48>>

\* the tree with one symbolic link, a -> "hi"
linkTree == treeRow(linkMode, nameA, objectDigest(blobStr, blobHi))

linkEntries ==
    <<packEntry(objCommit, remoteCommit(objectDigest(treeStr, linkTree))),
      packEntry(objTree, linkTree),
      packEntry(objBlob, blobHi)>>

linkTip == Hex(objectDigest(commitStr, remoteCommit(objectDigest(treeStr, linkTree))))

\* a ref-delta entry: type 7 and the delta's length, the 20 bytes of the
\* base's digest, the delta deflated
refDeltaEntry(baseDigest, base, instrs) ==
    entryHeader(objRefDelta, Len(EncodeDelta(base, instrs)))
    \o baseDigest \o Deflate(EncodeDelta(base, instrs))

\* the delta that makes of flatTree the tree with the one file c: "100644 "
\* copied, the name inserted, the NUL and the digest copied
renameInstrs == <<Copy(0, 7), Insert(nameC), Copy(8, 21)>>
renamedTree == treeRow(fileMode, nameC, objectDigest(blobStr, blobHi))

\* a blob no pack holds, "z"
blobZ == <<122>>

Remote(getOk, advert, postOk, response) ==
    [getOk |-> getOk, advert |-> advert, postOk |-> postOk, response |-> response]

\* the remotes, by URL ("u1", "u2", ...):
\*   u1 the flat repository         u2 the nested repository
\*   u3 u1 with a wrong pack trailer
\*   u4 the POST fails              u5 the GET fails
\*   u6 u1, the pack holding an entry of type 4 (a tag) after the commit
\*   u7 u1, the pack lacking the blob
\*   u8 the repository with the symbolic link
\*   u9 u1, the pack holding a ref-delta on the tree as its last entry
\*   u10 u1, the pack holding a ref-delta on a blob that is not in it
\*   u11 u1, the ref-delta of u9 standing before its base
\*   u12 a pack of no entries
Remotes ==
    <<Remote(TRUE, advertisement(flatTip), TRUE, nakLine \o goodPack(flatEntries)),
      Remote(TRUE, advertisement(nestedTip), TRUE, nakLine \o goodPack(nestedEntries)),
      Remote(TRUE, advertisement(flatTip), TRUE, nakLine \o badPack(flatEntries)),
      Remote(TRUE, advertisement(flatTip), FALSE, <<>>),
      Remote(FALSE, <<>>, FALSE, <<>>),
      Remote(TRUE, advertisement(flatTip), TRUE,
             nakLine \o goodPack(<<flatEntries[1], packEntry(4, blobHi),
                                   flatEntries[2], flatEntries[3]>>)),
      Remote(TRUE, advertisement(flatTip), TRUE,
             nakLine \o goodPack(<<flatEntries[1], flatEntries[2]>>)),
      Remote(TRUE, advertisement(linkTip), TRUE, nakLine \o goodPack(linkEntries)),
      Remote(TRUE, advertisement(flatTip), TRUE,
             nakLine \o goodPack(Append(flatEntries,
                 refDeltaEntry(objectDigest(treeStr, flatTree), flatTree, renameInstrs)))),
      Remote(TRUE, advertisement(flatTip), TRUE,
             nakLine \o goodPack(Append(flatEntries,
                 refDeltaEntry(objectDigest(blobStr, blobZ), blobZ, <<Copy(0, 1)>>)))),
      Remote(TRUE, advertisement(flatTip), TRUE,
             nakLine \o goodPack(<<flatEntries[1],
                 refDeltaEntry(objectDigest(treeStr, flatTree), flatTree, renameInstrs),
                 flatEntries[2], flatEntries[3]>>)),
      Remote(TRUE, advertisement(flatTip), TRUE, nakLine \o goodPack(<<>>))>>

\* "u" and the remote's number in decimal
Url(i) == IF i < 10 THEN <<117, 48 + i>> ELSE <<117, 48 + (i \div 10), 48 + (i % 10)>>
Urls == {Url(i) : i \in DOMAIN Remotes}
RemoteOf(url) ==
    Remotes[IF Len(url) = 2 THEN url[2] - 48 ELSE 10 * (url[2] - 48) + (url[3] - 48)]

\* the repository behind a remote: its tip and the digests of the objects
\* the tip reaches (the commit, its tree, the subtrees, the blobs)
flatReach ==
    {flatTip, Hex(objectDigest(treeStr, flatTree)), Hex(objectDigest(blobStr, blobHi))}
nestedReach ==
    {nestedTip, Hex(objectDigest(treeStr, nestedTree)),
     Hex(objectDigest(treeStr, subTree)), Hex(objectDigest(blobStr, blobHi))}
linkReach ==
    {linkTip, Hex(objectDigest(treeStr, linkTree)), Hex(objectDigest(blobStr, blobHi))}
OriginOf(url) ==
    IF url = Url(2) THEN [tip |-> nestedTip, reach |-> nestedReach]
    ELSE IF url = Url(8) THEN [tip |-> linkTip, reach |-> linkReach]
    ELSE [tip |-> flatTip, reach |-> flatReach]

(***************************************************************************)
(* clone <url> <dir> (main, case "clone"), run with dir = ".".             *)
(***************************************************************************)
CmdClone ==
    \E url \in Urls :
      /\ Exec("clone", <<url, <<46>>>>, "cl_init")
      /\ failed' = FALSE
      /\ UNCHANGED <<repoVars, temp, wtVars, lastHash, pending>>

\* os.MkdirAll(repoPath), initGitRepository
ClInit ==
    /\ pc = "cl_init"
    /\ \E ioError \in BOOLEAN :
         IF ioError
         THEN failed' = TRUE /\ pc' = "exit1" /\ UNCHANGED head
         ELSE head' = File(headFileContents) /\ pc' = "cl_tip" /\ UNCHANGED failed
    /\ UNCHANGED <<objects, ref, headsDir, temp, wtVars, cmd, stdout, ncmds, lastHash,
                   pending, cloneVars,
                   deltaRun, headerRun>>

\* commitSha, err := fetchLatestCommit(gitUrl)
ClFetchLatestCommit ==
    /\ pc = "cl_tip"
    /\ \E remote \in {RemoteOf(cmd.args[1])} :
       \E r \in {fetchLatestCommit(remote.advert)} :
           IF ~remote.getOk \/ r.err
           THEN failed' = TRUE /\ pc' = "exit1" /\ UNCHANGED commitSha
           ELSE commitSha' = r.sha /\ pc' = "cl_ref" /\ UNCHANGED failed
    /\ UNCHANGED <<repoVars, temp, wtVars, cmd, stdout, ncmds, lastHash, pending,
                   packet, rdPos, shaToObj, toWrite,
                   deltaRun, headerRun>>

\* writeBranchRefFile(repoPath, "master", commitSha): the file holds the
\* digest and nothing after it
ClWriteBranchRefFile ==
    /\ pc = "cl_ref"
    /\ headsDir' = TRUE
    /\ ref' = File(commitSha)
    /\ pc' = "cl_post"
    /\ UNCHANGED <<objects, head, temp, wtVars, cmd, stdout, failed, ncmds, lastHash,
                   pending, cloneVars,
                   deltaRun, headerRun>>

\* fetchObjects up to its loop: fetchPacketFile (a failed POST is printed
\* and resp.Body dereferences nil; a body shorter than 8 bytes cannot be
\* sliced), the trailer compared (a mismatch is printed), the reader placed
\* after the 12-byte header
ClFetchPacketFile ==
    /\ pc = "cl_post"
    /\ \E remote \in {RemoteOf(cmd.args[1])} :
       \E packetFileBuffer \in {From(remote.response, nakLen + 1)} :
       \E n \in {Len(packetFileBuffer)} :
           IF ~remote.postOk \/ Len(remote.response) < nakLen \/ n < checksumLen
           THEN failed' = TRUE /\ pc' = "exit2" /\ UNCHANGED <<packet, rdPos>>
           ELSE /\ packet' = packetFileBuffer
                /\ rdPos' = headerLen + 1
                /\ failed' = (shaData(Slice(packetFileBuffer, 1, n - checksumLen))
                              # Slice(packetFileBuffer, n - checksumLen + 1, n))
                /\ pc' = "cl_read"
    /\ UNCHANGED <<repoVars, temp, wtVars, cmd, stdout, ncmds, lastHash, pending,
                   commitSha, shaToObj, toWrite,
                   deltaRun, headerRun>>

\* one turn of fetchObjects' loop: readObject, then the loop ends when at
\* most 20 bytes are left.  A copy past the base's length ends the run here
\* with the panic of the slice expression.
ClReadObject ==
    /\ pc = "cl_read"
    /\ \E r \in {readObject(packet, rdPos, shaToObj)} :
           IF r.res # "ok"
           THEN /\ failed' = TRUE
                /\ pc' = IF r.res = "err" THEN "exit1" ELSE "exit2"
                /\ UNCHANGED <<rdPos, shaToObj, toWrite>>
           ELSE /\ shaToObj' = r.table
                /\ rdPos' = r.pos
                /\ IF Len(packet) - r.pos + 1 <= checksumLen
                   THEN pc' = "cl_pick" /\ toWrite' = DOMAIN r.table
                   ELSE pc' = "cl_read" /\ UNCHANGED toWrite
                /\ UNCHANGED failed
    /\ UNCHANGED <<repoVars, temp, wtVars, cmd, stdout, ncmds, lastHash, pending,
                   commitSha, packet,
                   deltaRun, headerRun>>

\* writeFetchedObjects: the next object of the table, in the map's order,
\* goes to writeGitObject
ClPick ==
    /\ pc = "cl_pick"
    /\ \E k \in toWrite :
         LET t == typeString(shaToObj[k].Type)
             b == wrapper(shaToObj[k].Buf, t[2])
         IN  IF ~t[1]
             THEN failed' = TRUE /\ pc' = "exit1" /\ UNCHANGED <<pending, toWrite>>
             ELSE /\ pending' = <<[name |-> HexSha(b), data |-> Deflate(b)]>>
                  /\ toWrite' = toWrite \ {k}
                  /\ pc' = "wo_open"
                  /\ UNCHANGED failed
    /\ UNCHANGED <<repoVars, temp, wtVars, cmd, stdout, ncmds, lastHash,
                   commitSha, packet, rdPos, shaToObj,
                   deltaRun, headerRun>>

\* restoreRepository(repoPath, commitSha), and main returns
ClRestore ==
    /\ pc = "cl_pick"
    /\ toWrite = {}
    /\ \E r \in {restoreRepository(objects, commitSha,
                                   [files |-> wtFiles, dirs |-> wtDirs])} :
           /\ wtFiles' = r.files
           /\ wtDirs' = r.dirs
           /\ failed' = (failed \/ r.err)
           /\ pc' = IF r.err THEN "exit1" ELSE "exit0"
    /\ UNCHANGED <<repoVars, temp, cmd, stdout, ncmds, lastHash, pending, cloneVars,
                   deltaRun, headerRun>>

(***************************************************************************)
(* The process is killed: nothing deferred runs, the files stay.           *)
(***************************************************************************)
Kill ==
    /\ ~Stopped
    /\ pc' = "killed"
    /\ UNCHANGED <<repoVars, temp, wtVars, cmd, stdout, failed, ncmds, lastHash, pending,
                   cloneVars,
                   deltaRun, headerRun>>

Next ==
    \/ CmdInit
    \/ CmdUnknown
    \/ CmdHashObject
    \/ HoOpen
    \/ HoCopy
    \/ HoRename
    \/ HoClose
    \/ CmdCatFile
    \/ CatFile
    \/ CmdWriteTree
    \/ CmdCommitTree
    \/ CtRef
    \/ WoOpen
    \/ WoWrite
    \/ CmdClone
    \/ ClInit
    \/ ClFetchLatestCommit
    \/ ClWriteBranchRefFile
    \/ ClFetchPacketFile
    \/ ClReadObject
    \/ ClPick
    \/ ClRestore
    \/ Kill

Spec == Init /\ [][Next]_vars

(***************************************************************************)
(* Inputs: the bases and the deltas readDeltified is run on.                *)
(***************************************************************************)
\* "ABCDEFGH", and 300 bytes for offsets and sizes of more than one byte
baseLetters == <<65, 66, 67, 68, 69, 70, 71, 72>>
baseLong == [i \in 1..300 |-> (7 * i) % 251]

\* the instructions tried on a base: copies that stay inside it, inserts
InstrsOn(base) ==
    {c \in {Copy(o, n) : o \in {0, 2, 5, 257}, n \in {1, 3, 258}} :
       c.offset + c.size <= Len(base)}
    \cup {Insert(<<88>>), Insert(<<88, 88>>)}

RECURSIVE SeqsUpTo(_, _)
SeqsUpTo(S, n) ==
    IF n = 0 THEN {<<>>}
    ELSE SeqsUpTo(S, n - 1)
         \cup {Append(q, x) : q \in {r \in SeqsUpTo(S, n - 1) : Len(r) = n - 1}, x \in S}

DeltaInputs ==
    UNION {{[base |-> b, instrs |-> q, stream |-> EncodeDelta(b, q),
             res |-> "none", out |-> <<>>] : q \in SeqsUpTo(InstrsOn(b), MaxInstrs)}
           : b \in {baseLetters, baseLong}}

(***************************************************************************)
(* readDeltified on its own: one call on one input.                        *)
(***************************************************************************)
InitDelta ==
    /\ objects = EmptyMap
    /\ ref = NoFile
    /\ head = NoFile
    /\ headsDir = FALSE
    /\ temp = NoFile
    /\ wtFiles = EmptyMap
    /\ wtDirs = {}
    /\ cmd = [name |-> "", args |-> <<>>]
    /\ pc = "idle"
    /\ stdout = <<>>
    /\ failed = FALSE
    /\ ncmds = 0
    /\ lastHash = [sha |-> <<>>, content |-> <<>>]
    /\ pending = <<>>
    /\ commitSha = <<>>
    /\ packet = <<>>
    /\ rdPos = 0
    /\ shaToObj = EmptyMap
    /\ toWrite = {}
    /\ deltaRun \in DeltaInputs
    /\ headerRun = NoHeader

ApplyDelta ==
    /\ deltaRun.res = "none"
    /\ \E r \in {readDeltified(deltaRun.stream, deltaRun.base)} :
         deltaRun' = [deltaRun EXCEPT !.res = r.res, !.out = r.buf]
    /\ UNCHANGED <<repoVars, temp, wtVars, cmd, pc, stdout, failed, ncmds, lastHash,
                   pending, cloneVars, headerRun>>

SpecDelta == InitDelta /\ [][ApplyDelta]_vars

(***************************************************************************)
(* Inputs: pack entry headers for readObjectTypeAndLen.  Every byte but    *)
(* the last has its top bit set; the first holds the type in bits 4..6.    *)
(***************************************************************************)
\* no command has run and none can: the state of a run of one function
NoProgram ==
    /\ objects = EmptyMap
    /\ ref = NoFile
    /\ head = NoFile
    /\ headsDir = FALSE
    /\ temp = NoFile
    /\ wtFiles = EmptyMap
    /\ wtDirs = {}
    /\ cmd = [name |-> "", args |-> <<>>]
    /\ pc = "none"
    /\ stdout = <<>>
    /\ failed = FALSE
    /\ ncmds = 0
    /\ lastHash = [sha |-> <<>>, content |-> <<>>]
    /\ pending = <<>>
    /\ commitSha = <<>>
    /\ packet = <<>>
    /\ rdPos = 0
    /\ shaToObj = EmptyMap
    /\ toWrite = {}

\* the low seven bits tried for a byte after the first, and the first bytes
\* tried: a type and the low four bits of the length
TailBits == {0, 1, 127}
FirstBits == {16 * t + low : t \in {objCommit, objBlob, objRefDelta}, low \in {0, 5, 15}}

\* the sequences of n bytes after the first, the top bit set on all but the
\* last
RECURSIVE HeaderTails(_)
HeaderTails(n) ==
    IF n = 0 THEN {<<>>}
    ELSE IF n = 1 THEN {<<b>> : b \in TailBits}
    ELSE {<<msbMask + b>> \o t : b \in TailBits, t \in HeaderTails(n - 1)}

HeaderInputs ==
    {[header |-> <<f>>, res |-> "none", objType |-> 0, num |-> 0] : f \in FirstBits}
    \cup UNION {{[header |-> <<msbMask + f>> \o t, res |-> "none", objType |-> 0, num |-> 0]
                 : f \in FirstBits, t \in HeaderTails(n)} : n \in 1..(MaxHeaderLen - 1)}

(***************************************************************************)
(* readObjectTypeAndLen on its own: one call on one header.                *)
(***************************************************************************)
InitHeader ==
    /\ NoProgram
    /\ deltaRun = NoDelta
    /\ headerRun \in HeaderInputs

ApplyHeader ==
    /\ headerRun.res = "none"
    /\ \E r \in {readObjectTypeAndLen(headerRun.header, 1)} :
         headerRun' = [headerRun EXCEPT !.res = IF r.err THEN "err" ELSE "ok",
                                        !.objType = r.type, !.num = r.num]
    /\ UNCHANGED <<repoVars, temp, wtVars, cmd, pc, stdout, failed, ncmds, lastHash,
                   pending, cloneVars, deltaRun>>

SpecHeader == InitHeader /\ [][ApplyHeader]_vars

(***************************************************************************)
(* Inputs: deltas at the edges of the format.  Beside the instructions of  *)
(* a well-formed delta: a copy whose size reads as 0 (Copy(offset, 0): no  *)
(* size byte selected; CopyZ(offset): one size byte selected, and it is    *)
(* 0), which stands for a copy of 0x10000 bytes, and the op byte 0 (Nul),  *)
(* which is reserved.  srcLen is the base size the delta declares.         *)
(***************************************************************************)
CopyZ(offset) == [op |-> "copyz", offset |-> offset, size |-> 0, data |-> <<>>]
Nul == [op |-> "nul", offset |-> 0, size |-> 0, data |-> <<>>]

\* the bytes a copy of size 0 stands for
WideCopy == 2 ^ 16

EncodeEdge(in) ==
    IF in.op = "nul" THEN <<0>>
    ELSE IF in.op = "copyz"
    THEN <<128 + ByteBits(in.offset, 0, 4, 0) + 16>> \o NonZeroBytes(in.offset, 0, 4) \o <<0>>
    ELSE EncodeInstr(in)

\* what the instructions stand for, the op byte 0 passed over: a copy of
\* size 0 is a copy of 0x10000 bytes
RECURSIVE ExpectedWide(_, _)
ExpectedWide(base, instrs) ==
    IF instrs = <<>> THEN <<>>
    ELSE (IF Head(instrs).op = "insert" THEN Head(instrs).data
          ELSE IF Head(instrs).op = "nul" THEN <<>>
          ELSE Slice(base, Head(instrs).offset + 1,
                     Head(instrs).offset
                     + (IF Head(instrs).size = 0 THEN WideCopy ELSE Head(instrs).size)))
         \o ExpectedWide(base, Tail(instrs))

EdgeDelta(base, srcLen, instrs) ==
    [base |-> base, srcLen |-> srcLen, instrs |-> instrs,
     stream |-> Uvarint(srcLen) \o Uvarint(Len(ExpectedWide(base, instrs)))
                \o Concat([i \in 1..Len(instrs) |-> EncodeEdge(instrs[i])]),
     res |-> "none", out |-> <<>>]

\* 0x10000 + 8 bytes
baseWide == [i \in 1..(WideCopy + 8) |-> (11 * i) % 253]

DeltaEdgeInputs ==
    {EdgeDelta(baseLetters, n, q) :
       n \in {7, 8, 9},
       q \in SeqsUpTo({Copy(2, 3), Copy(0, 1), Insert(<<88>>), Nul}, MaxInstrs)}
    \cup {EdgeDelta(baseWide, Len(baseWide), q) :
            q \in SeqsUpTo({Copy(0, 0), CopyZ(8), Insert(<<88>>)}, MaxInstrs)}

(***************************************************************************)
(* readDeltified on the deltas at the edges.                               *)
(***************************************************************************)
InitDeltaEdge ==
    /\ NoProgram
    /\ deltaRun \in DeltaEdgeInputs
    /\ headerRun = NoHeader

SpecDeltaEdge == InitDeltaEdge /\ [][ApplyDelta]_vars

(***************************************************************************)
(* The properties.                                                         *)
(***************************************************************************)
\* a command has run to its end (it was not killed)
Exited == pc \in {"exit0", "exit1", "exit2"}

\* the digest the branch ref names: its bytes without the newline at the end
RefDigest ==
    IF ref.data # <<>> /\ ref.data[Len(ref.data)] = 10
    THEN Slice(ref.data, 1, Len(ref.data) - 1)
    ELSE ref.data

\* C1: once a command has ended, every complete object file under
\* .git/objects/<hh>/<rest> inflates to bytes whose SHA1, in lowercase hex,
\* is <hh><rest>; the digest commit returns is the SHA1 of
\* "commit <len>\0" + payload and names the file the commit is stored in.
C1_DigestIsPath ==
    Exited =>
      \A p \in DOMAIN objects :
        Finalized(objects[p]) => HexSha(Inflate(objects[p]).data) = p

\* C2: in no state does refs/heads/master hold a digest whose object is not
\* in the object store: within a command the objects are written before the
\* ref that names them.
C2_ObjectsBeforeRef == ref.exists => RefDigest \in DOMAIN objects

\* C3: when the process is killed, each file at a final name
\* objects/<hh>/<rest> holds a complete, finalized zlib stream; there is no
\* partially written or unfinished stream at a final name.
C3_KilledWriteIsAtomic ==
    pc = "killed" => \A p \in DOMAIN objects : Finalized(objects[p])

\* C4: no step deletes an object of the store or changes its content: an
\* object file with valid content is there, with the same content, after
\* every step.
C4_ObjectsImmutable ==
    [][\A p \in DOMAIN objects :
         Finalized(objects[p]) => p \in DOMAIN objects' /\ objects'[p] = objects[p]]_vars

\* C5: cat-file -p of the digest hash-object -w printed for a file outputs
\* exactly the bytes of that file, whatever they are.
C5_CatFileRoundTrip ==
    (/\ pc = "exit0"
     /\ cmd.name = "cat-file"
     /\ cmd.args[1] = optP
     /\ cmd.args[2] = lastHash.sha
     /\ ~failed)
    => stdout = lastHash.content

\* the trailer of the fetched pack does not match the SHA1 of the bytes
\* before it
TrailerMismatch ==
    /\ cmd.name = "clone"
    /\ Len(packet) >= checksumLen
    /\ shaData(Slice(packet, 1, Len(packet) - checksumLen))
       # Slice(packet, Len(packet) - checksumLen + 1, Len(packet))

\* C6: when the pack's trailer does not match, the clone fails: fetchObjects
\* does not return without an error, so no object of the pack is written,
\* no file is restored and the command does not end with success.
C6_BadTrailerFailsClone ==
    TrailerMismatch => pc \notin {"cl_pick", "wo_open", "wo_write", "exit0"}

\* the key git sorts a tree entry by: name + "/" for a directory
TreeKey(child) == IF child.mode = dirMode THEN child.name \o <<47>> ELSE child.name

\* the entries of the tree with that digest, as parseTree reads them
TreeChildren(sha) == parseTree(readObjectContent(objects, sha).data).children

\* C7: the entries of the tree write-tree wrote are in ascending byte-wise
\* order of name + "/" for directories and name for files.
C7_TreeEntriesSorted ==
    (pc = "exit0" /\ cmd.name = "write-tree") =>
      \E kids \in {TreeChildren(Slice(stdout, 1, Len(stdout) - 1))} :
        \A i \in 1..(Len(kids) - 1) : StrLess(TreeKey(kids[i]), TreeKey(kids[i + 1]))

\* the working tree holds what the clone restored and nothing else
RestoredOnly ==
    restoreRepository(objects, commitSha, [files |-> EmptyMap, dirs |-> {}])
    = [err |-> FALSE, files |-> wtFiles, dirs |-> wtDirs]

\* C8: after a clone into an empty directory, write-tree on the working
\* tree gives the tree digest of the first line of the tip commit.
C8_CloneThenWriteTree ==
    (pc = "exit0" /\ cmd.name = "clone" /\ ~failed /\ RestoredOnly) =>
      writeTree(wtFiles, wtDirs, <<>>).hex
      = commitTree(readObjectContent(objects, commitSha).data)[2]

\* C9: a command ends with exit code 0 only if it met no failure.
C9_ExitZeroMeansSuccess == pc = "exit0" => ~failed

\* C10: on a well-formed delta readDeltified returns the concatenation, in
\* instruction order, of base[offset : offset+size] for each copy and of the
\* literal bytes for each insert.
C10_DeltaOutput ==
    deltaRun.res # "none" =>
      /\ deltaRun.res = "ok"
      /\ deltaRun.out = ExpectedOutput(deltaRun.base, deltaRun.instrs)

\* base "ABCDEFGH", copy offset=2 size=3, insert "XX": the output is "CDEXX"
C10_Example ==
    /\ deltaRun.res = "ok"
    /\ deltaRun.base = baseLetters
    /\ deltaRun.instrs = <<Copy(2, 3), Insert(<<88, 88>>)>>
    /\ deltaRun.out = <<67, 68, 69, 88, 88>>

\* the digest a command printed as its only line
Printed == Slice(stdout, 1, Len(stdout) - 1)

\* "tree <tree>\nparent <parent>\n\n<msg>\n" for the arguments of the
\* running commit-tree
PayloadOfArgs ==
    <<116, 114, 101, 101, 32>> \o cmd.args[1] \o <<10>>
    \o <<112, 97, 114, 101, 110, 116, 32>> \o cmd.args[3] \o <<10>>
    \o <<10>> \o cmd.args[5] \o <<10>>

\* C11: when commit-tree has returned, the object at the digest it printed
\* is a commit object whose payload is exactly
\* "tree <tree>\nparent <parent>\n\n<msg>\n", reading that object yields the
\* payload, and refs/heads/master holds the digest followed by a newline.
C11_CommitStored ==
    (pc = "exit0" /\ cmd.name = "commit-tree") =>
      /\ Printed \in DOMAIN objects
      /\ Inflate(objects[Printed]).data
         = <<99, 111, 109, 109, 105, 116, 32>> \o Itoa(Len(PayloadOfArgs)) \o <<0>>
           \o PayloadOfArgs
      /\ readObjectContent(objects, Printed) = [err |-> FALSE, data |-> PayloadOfArgs]
      /\ ref = File(Printed \o <<10>>)

\* commit-tree of a tree that write-tree stored has returned
C11_Committed ==
    /\ pc = "exit0"
    /\ cmd.name = "commit-tree"
    /\ cmd.args[1] \in DOMAIN objects
    /\ ref.exists
    /\ Len(stdout) = 2 * DigestLen + 1

\* the object with that digest is in the store, complete and under its name
Stored(d) ==
    /\ d \in DOMAIN objects
    /\ Finalized(objects[d])
    /\ HexSha(Inflate(objects[d]).data) = d

\* C12: when a clone has ended with exit code 0, refs/heads/master names the
\* tip the remote advertised, and the tip commit, its tree, every subtree
\* and every blob are in the object store.
C12_CloneComplete ==
    (pc = "exit0" /\ cmd.name = "clone") =>
      /\ ref.exists
      /\ RefDigest = OriginOf(cmd.args[1]).tip
      /\ \A d \in OriginOf(cmd.args[1]).reach : Stored(d)

\* the clone of the nested repository has ended with exit code 0
C12_NestedCloned ==
    /\ pc = "exit0"
    /\ cmd.name = "clone"
    /\ cmd.args[1] = Url(2)
    /\ ~failed
    /\ Cardinality(DOMAIN objects) >= 4

\* the length a header encodes: the low four bits of the first byte, then
\* seven bits of each following byte, least significant first
RECURSIVE HeaderLen(_, _)
HeaderLen(h, k) ==
    IF k > Len(h) THEN 0
    ELSE IF k = 1 THEN (h[1] % 16) + HeaderLen(h, 2)
    ELSE (h[k] % 128) * (2 ^ (4 + 7 * (k - 2))) + HeaderLen(h, k + 1)

\* C13: readObjectTypeAndLen returns bits 4..6 of the first byte as the type
\* and (b0 & 0x0F) | ((b1 & 0x7F) << 4) | ((b2 & 0x7F) << 11) | ... as the
\* length, the continuation bit of no byte counted, for headers of three
\* and more bytes too.
C13_HeaderLength ==
    headerRun.res # "none" =>
      /\ headerRun.res = "ok"
      /\ headerRun.objType = (headerRun.header[1] \div 16) % 8
      /\ headerRun.num = HeaderLen(headerRun.header, 1)

\* the delta's instructions hold an op byte 0 / a copy whose size reads as 0
HasNul == \E i \in DOMAIN deltaRun.instrs : deltaRun.instrs[i].op = "nul"
HasZeroSizeCopy ==
    \E i \in DOMAIN deltaRun.instrs :
      deltaRun.instrs[i].op \in {"copy", "copyz"} /\ deltaRun.instrs[i].size = 0

\* C14: a delta whose declared base size is not the length of the base's
\* payload makes readDeltified return an error, and no object is made.
C14_BaseSizeChecked ==
    (deltaRun.res # "none" /\ deltaRun.srcLen # Len(deltaRun.base)) =>
      deltaRun.res = "err" /\ deltaRun.out = <<>>

\* C15: a copy whose size field reads as 0 appends the 0x10000 bytes of the
\* base from its offset on: the result of a delta with such copies (its base
\* size right, no op byte 0 in it) is what the instructions stand for.
C15_ZeroSizeCopy ==
    (/\ deltaRun.res # "none"
     /\ deltaRun.srcLen = Len(deltaRun.base)
     /\ HasZeroSizeCopy
     /\ ~HasNul)
    => /\ deltaRun.res = "ok"
       /\ deltaRun.out = ExpectedWide(deltaRun.base, deltaRun.instrs)

\* C16: a delta with an op byte 0 among its instructions (its base size
\* right) makes readDeltified return an error; the byte is not taken for an
\* insert of no bytes.
C16_ZeroOpRejected ==
    (deltaRun.res # "none" /\ deltaRun.srcLen = Len(deltaRun.base) /\ HasNul) =>
      deltaRun.res = "err"

\* the running clone has fetched the pack of that remote
Fetched(url) ==
    /\ cmd.name = "clone"
    /\ cmd.args[1] = url
    /\ packet = From(RemoteOf(url).response, nakLen + 1)

\* "tag"
tagStr == <<116, 97, 103>>

\* C17: a pack entry of type 4 (a tag) whose inflated length is the declared
\* one is accepted: the clone of a pack that holds one beside the objects of
\* the tip does not end with an error, and the tag is not written to the
\* object store.
C17_TagAccepted ==
    Fetched(Url(6)) =>
      /\ pc \notin {"exit1", "exit2"}
      /\ HexSha(wrapper(blobHi, tagStr)) \notin DOMAIN objects

\* C18: a tree entry whose mode neither starts with "100" nor is "40000"
\* makes the checkout fail: the clone of the repository whose tree holds a
\* symbolic link (mode 120000) does not end with exit code 0, the entry
\* skipped.
C18_OddModeRejected == Fetched(Url(8)) => pc # "exit0"

\* the reader of the running clone stands before a ref-delta entry: bits
\* 4..6 of the entry's first byte are 7
AtRefDelta ==
    /\ pc = "cl_read"
    /\ rdPos <= Len(packet)
    /\ (packet[rdPos] \div 16) % 8 = objRefDelta

\* the digest that entry names as its base: the 20 bytes after the header,
\* which ends with the first byte whose top bit is clear
BaseNamed ==
    LET h == CHOOSE k \in 1..Len(packet) :
                 /\ packet[rdPos + k - 1] < 128
                 /\ \A j \in 1..(k - 1) : packet[rdPos + j - 1] >= 128
    IN  Hex(SubSeq(packet, rdPos + h, rdPos + h + DigestLen - 1))

\* "commit", "tree" or "blob" for the kinds 1, 2, 3
KindName(kind) ==
    IF kind = objCommit THEN commitStr ELSE IF kind = objTree THEN treeStr ELSE blobStr

\* C19: a step that parses a ref-delta entry looks its base up in the table
\* of the objects parsed before it in this pack: when the base is not there
\* the parse ends with an error and the table stays as it is; when it is
\* there, the object the delta reconstructs (the packs' one delta on a base
\* that is present turns the tree of a into the tree of c) enters the table
\* under the digest of its own bytes, with the kind of the base.
C19_RefDeltaResolved ==
    [][(AtRefDelta /\ pc' # "killed") =>
         IF BaseNamed \notin DOMAIN shaToObj
         THEN pc' = "exit1" /\ shaToObj' = shaToObj
         ELSE /\ pc' \in {"cl_read", "cl_pick"}
              /\ shaToObj' =
                   Put(shaToObj,
                       Hex(objectDigest(KindName(shaToObj[BaseNamed].Type), renamedTree)),
                       [Type |-> shaToObj[BaseNamed].Type, Buf |-> renamedTree])]_vars

\* the ref-delta on the tree has been parsed: the tree of c is in the table
C19_DeltaParsed ==
    /\ Fetched(Url(9))
    /\ Hex(objectDigest(treeStr, renamedTree)) \in DOMAIN shaToObj
    /\ shaToObj[Hex(objectDigest(treeStr, renamedTree))].Type = objTree

\* C20: the parse loop of fetchObjects never starts on an entry when only
\* the 20 bytes of the trailer are left in the pack, a pack of no entries
\* included: it parses the entries before the trailer and stops.
C20_NoParseAtTrailer ==
    pc = "cl_read" => Len(packet) - (rdPos - 1) > checksumLen

====
